---- MODULE Spec2Model ----
(***************************************************************************)
(* A model of pyflann/flann_ctypes.py: the FLANNParameters record          *)
(* (CustomStructure), load_flann_library, the module-level registration    *)
(* of the per-datatype function tables, and calls made through the tables. *)
(***************************************************************************)
EXTENDS Integers, Sequences, FiniteSets, TLC

VARIABLES
    params,       \* the C fields of one FLANNParameters instance, as getattr reads them
    field_names,  \* the instance's __field_names list
    last,         \* the last call made on the record and how it ended
    nCalls,       \* number of calls made on the record so far
    platform,     \* sys.platform
    platSpec,     \* what get_plat_specifier returns; "" when it raises
    existing,     \* the paths for which os.path.exists is true
    loadable,     \* the paths and bare names cdll[...] can load
    gen,          \* position of the generator gen_possible_libpaths
    fi,           \* index of the next bare name of the fallback loop
    tried_paths,  \* load_flann_library's tried_paths
    flannlib,     \* load_flann_library's flannlib, then the module's
    warned,       \* whether warnings.warn was called
    lpc,          \* where load_flann_library is
    mpc,          \* where the module's top-level code is
    ri,           \* index of the next registration step
    sigs,         \* restype and argtypes set on the library's functions
    flann,        \* the attributes of the flann object: the function tables
    handles,      \* the index handles the library has returned, live or freed
    calls,        \* per thread, the table call it is inside, or the last one it made
    crashed       \* whether a call into the library has faulted

paramVars == <<params, field_names, last, nCalls>>
envVars == <<platform, platSpec, existing, loadable>>
loadVars == <<gen, fi, tried_paths, flannlib, warned, lpc>>
modVars == <<mpc, ri, sigs, flann>>
callVars == <<handles, calls, crashed>>

(***************************************************************************)
(* Bounds.                                                                 *)
(***************************************************************************)
MaxCalls == 2      \* calls made on one record
MaxDictLen == 2    \* items in the dict passed to update
MaxPresent == 1    \* candidate library files present on disk
MaxHandles == 2    \* index handles the library hands out
MaxThreads == 2    \* threads calling through the function tables

(***************************************************************************)
(* Python values.  An int is [t |-> "int", i |-> n, w |-> ""]; the value   *)
(* n + 2^32, which a c_uint field reads back for a negative n, is the same *)
(* record with w = "+2^32".  A float is named by its repr in s.            *)
(***************************************************************************)
PyInt(n) == [t |-> "int", i |-> n, s |-> "", w |-> ""]
PyStr(str) == [t |-> "str", i |-> 0, s |-> str, w |-> ""]
PyFloat(repr) == [t |-> "float", i |-> 0, s |-> repr, w |-> ""]
PyNone == [t |-> "None", i |-> 0, s |-> "", w |-> ""]

(***************************************************************************)
(* FLANNParameters: the declared fields, defaults and translation tables.  *)
(* Dicts are sequences of <<key, value>> pairs in iteration order.         *)
(***************************************************************************)
_fields_ ==
    << <<"algorithm", "c_int">>, <<"checks", "c_int">>, <<"eps", "c_float">>,
       <<"sorted", "c_int">>, <<"max_neighbors", "c_int">>, <<"cores", "c_int">>,
       <<"trees", "c_int">>, <<"leaf_max_size", "c_int">>, <<"branching", "c_int">>,
       <<"iterations", "c_int">>, <<"centers_init", "c_int">>, <<"cb_index", "c_float">>,
       <<"target_precision", "c_float">>, <<"build_weight", "c_float">>,
       <<"memory_weight", "c_float">>, <<"sample_fraction", "c_float">>,
       <<"table_number_", "c_uint">>, <<"key_size_", "c_uint">>,
       <<"multi_probe_level_", "c_uint">>, <<"log_level", "c_int">>,
       <<"random_seed", "c_long">> >>

_defaults_ ==
    << <<"algorithm", PyStr("kdtree")>>, <<"checks", PyInt(32)>>, <<"eps", PyFloat("0.0")>>,
       <<"sorted", PyInt(1)>>, <<"max_neighbors", PyInt(-1)>>, <<"cores", PyInt(0)>>,
       <<"trees", PyInt(1)>>, <<"leaf_max_size", PyInt(4)>>, <<"branching", PyInt(32)>>,
       <<"iterations", PyInt(5)>>, <<"centers_init", PyStr("random")>>,
       <<"cb_index", PyFloat("0.5")>>, <<"target_precision", PyFloat("0.9")>>,
       <<"build_weight", PyFloat("0.01")>>, <<"memory_weight", PyFloat("0.0")>>,
       <<"sample_fraction", PyFloat("0.1")>>, <<"table_number_", PyInt(12)>>,
       <<"key_size_", PyInt(20)>>, <<"multi_probe_level_", PyInt(2)>>,
       <<"log_level", PyStr("warning")>>, <<"random_seed", PyInt(-1)>> >>

_translation_ ==
    [algorithm |->
        << <<"linear", 0>>, <<"kdtree", 1>>, <<"kmeans", 2>>, <<"composite", 3>>,
           <<"kdtree_single", 4>>, <<"hierarchical", 5>>, <<"lsh", 6>>,
           <<"saved", 254>>, <<"autotuned", 255>>, <<"default", 1>> >>,
     centers_init |->
        << <<"random", 0>>, <<"gonzales", 1>>, <<"kmeanspp", 2>>, <<"default", 0>> >>,
     log_level |->
        << <<"none", 0>>, <<"fatal", 1>>, <<"error", 2>>, <<"warning", 3>>,
           <<"info", 4>>, <<"default", 2>> >>]

\* a variant that takes the second component of each pair
FieldNamesOf_types(fields) == [j \in 1..Len(fields) |-> fields[j][2]]

\* [f for (f, t) in self._fields_]
FieldNamesOf(fields) == [j \in 1..Len(fields) |-> fields[j][1]]

InSeq(x, sq) == \E j \in 1..Len(sq) : sq[j] = x

\* the ctypes type a field was declared with
CTypeOf(k) == _fields_[CHOOSE j \in 1..Len(_fields_) : _fields_[j][1] = k][2]

(***************************************************************************)
(* setattr on a ctypes Structure field.  c_int, c_uint and c_long take a   *)
(* Python int and nothing else; c_float takes an int or a float and keeps  *)
(* the nearest single-precision value.  The ints drawn below lie within    *)
(* 32 bits, so c_int and c_long keep them exactly and c_uint reads a       *)
(* negative n back as n + 2^32.  The result is [ok, val]: ok = FALSE is    *)
(* the TypeError ctypes raises, val is what getattr returns afterwards.    *)
(***************************************************************************)
F32Repr(repr) ==
    CASE repr = "0.9"  -> "0.8999999761581421"
      [] repr = "0.01" -> "0.009999999776482582"
      [] repr = "0.1"  -> "0.10000000149011612"
      [] OTHER         -> repr      \* 0.0, 0.5, 1.5: exact in single precision

IntAsFloat(n) == ToString(n) \o ".0"

StoreField(k, v) ==
    LET ct == CTypeOf(k) IN
    CASE ct \in {"c_int", "c_long"} ->
            IF v.t = "int" THEN [ok |-> TRUE, val |-> v] ELSE [ok |-> FALSE, val |-> v]
      [] ct = "c_uint" ->
            IF v.t = "int"
            THEN [ok |-> TRUE, val |-> IF v.i < 0 THEN [v EXCEPT !.w = "+2^32"] ELSE v]
            ELSE [ok |-> FALSE, val |-> v]
      [] ct = "c_float" ->
            CASE v.t = "int"   -> [ok |-> TRUE, val |-> PyFloat(IntAsFloat(v.i))]
              [] v.t = "float" -> [ok |-> TRUE, val |-> PyFloat(F32Repr(v.s))]
              [] OTHER         -> [ok |-> FALSE, val |-> v]

\* Structure.__init__: every field zero
ZeroFields ==
    [k \in {_fields_[j][1] : j \in 1..Len(_fields_)} |->
        IF CTypeOf(k) = "c_float" THEN PyFloat("0.0") ELSE PyInt(0)]

(***************************************************************************)
(* CustomStructure.__translate and __translate_back.  `v in table` is a    *)
(* dict key lookup: the keys are strings, so only a str can be found.      *)
(* __translate_back returns the first key, in table order, whose code      *)
(* equals the stored value.                                                *)
(***************************************************************************)
Translated == DOMAIN _translation_

TableHasKey(k, v) ==
    v.t = "str" /\ \E j \in 1..Len(_translation_[k]) : _translation_[k][j][1] = v.s

translate(k, v) ==
    IF k \in Translated /\ TableHasKey(k, v)
    THEN PyInt(_translation_[k][CHOOSE j \in 1..Len(_translation_[k]) :
                                    _translation_[k][j][1] = v.s][2])
    ELSE v

CodeMatches(tv, v) == v.t = "int" /\ v.w = "" /\ v.i = tv

\* a variant that returns the last matching key instead of the first
translate_back_last(k, v) ==
    IF k \in Translated /\ \E j \in 1..Len(_translation_[k]) : CodeMatches(_translation_[k][j][2], v)
    THEN LET lastj == CHOOSE j \in 1..Len(_translation_[k]) :
                         /\ CodeMatches(_translation_[k][j][2], v)
                         /\ \A h \in (j + 1)..Len(_translation_[k]) :
                               ~CodeMatches(_translation_[k][h][2], v)
         IN  PyStr(_translation_[k][lastj][1])
    ELSE v

translate_back(k, v) ==
    IF k \in Translated /\ \E j \in 1..Len(_translation_[k]) : CodeMatches(_translation_[k][j][2], v)
    THEN LET first == CHOOSE j \in 1..Len(_translation_[k]) :
                         /\ CodeMatches(_translation_[k][j][2], v)
                         /\ \A h \in 1..(j - 1) : ~CodeMatches(_translation_[k][h][2], v)
         IN  PyStr(_translation_[k][first][1])
    ELSE v

(***************************************************************************)
(* CustomStructure.update: the loop over dict.items().  The result is the  *)
(* fields as the loop left them, the exception that ended it ("none" when  *)
(* it ran to the end) and the number of items applied before that.         *)
(***************************************************************************)
RECURSIVE UpdateFrom(_, _, _, _)
UpdateFrom(flds, names, d, j) ==
    IF j > Len(d) THEN [fields |-> flds, exc |-> "none", applied |-> j - 1]
    ELSE LET k == d[j][1]
             v == d[j][2]
         IN  IF InSeq(k, names)
             THEN LET r == StoreField(k, translate(k, v))
                  IN  IF r.ok
                      THEN UpdateFrom([flds EXCEPT ![k] = r.val], names, d, j + 1)
                      ELSE [fields |-> flds, exc |-> "TypeError", applied |-> j - 1]
             ELSE [fields |-> flds, exc |-> "KeyError", applied |-> j - 1]

\* a variant that checks every key before it stores anything
update_atomic(flds, names, d) ==
    IF \E j \in 1..Len(d) : ~InSeq(d[j][1], names)
    THEN [fields |-> flds, exc |-> "KeyError", applied |-> 0]
    ELSE UpdateFrom(flds, names, d, 1)

update(flds, names, d) == UpdateFrom(flds, names, d, 1)

\* CustomStructure.__setitem__
setitem(flds, names, k, v) ==
    IF InSeq(k, names)
    THEN LET r == StoreField(k, translate(k, v))
         IN  IF r.ok THEN [fields |-> [flds EXCEPT ![k] = r.val], exc |-> "none"]
                     ELSE [fields |-> flds, exc |-> "TypeError"]
    ELSE [fields |-> flds, exc |-> "KeyError"]

\* CustomStructure.__getitem__: no else branch, an unknown key falls off the
\* end of the method and the call returns None
getitem(flds, names, k) ==
    IF InSeq(k, names)
    THEN [ret |-> translate_back(k, flds[k]), exc |-> "none"]
    ELSE [ret |-> PyNone, exc |-> "none"]

\* CustomStructure.keys
keys(names) == names

(***************************************************************************)
(* The calls made on the record.  Keys and values are drawn from small     *)
(* sets: the three translated fields with every name of their own table,   *)
(* one field of each other ctypes type, and a key that is no field.        *)
(***************************************************************************)
NoSuchKey == "nosuch"

InputKeys == Translated \cup {"checks", "eps", "table_number_", "random_seed", NoSuchKey}

TableNames(k) == {_translation_[k][j][1] : j \in 1..Len(_translation_[k])}
TableCodes(k) == {_translation_[k][j][2] : j \in 1..Len(_translation_[k])}

InputValues(k) ==
    IF k \in Translated
    THEN {PyStr(n) : n \in TableNames(k)}
            \cup {PyStr("bogus_name"), PyInt(7), PyInt(1), PyFloat("1.5")}
    ELSE {PyInt(64), PyInt(-1), PyFloat("0.9"), PyStr("kdtree")}

UpdateItems ==
    { <<"checks", PyInt(64)>>, <<"algorithm", PyStr("kmeans")>>,
      <<"log_level", PyInt(7)>>, <<NoSuchKey, PyInt(1)>>, <<"eps", PyStr("bad")>> }

\* dicts: sequences of items with distinct keys, in iteration order
InputDicts ==
    UNION { { d \in [1..n -> UpdateItems] :
                \A a, b \in 1..n : a # b => d[a][1] # d[b][1] } : n \in 0..MaxDictLen }

NoCall ==
    [op |-> "init", k |-> "", v |-> PyNone, d |-> <<>>, exc |-> "none",
     ret |-> PyNone, retKeys |-> <<>>, applied |-> 0, before |-> ZeroFields]

\* FLANNParameters(): CustomStructure.__init__
NewParams == update(ZeroFields, FieldNamesOf(_fields_), _defaults_).fields

InitParams ==
    /\ field_names = FieldNamesOf(_fields_)
    /\ params = NewParams
    /\ last = [NoCall EXCEPT !.before = NewParams]
    /\ nCalls = 0

\* record.update(d)
Update(d) ==
    /\ nCalls < MaxCalls
    /\ LET r == update(params, field_names, d) IN
        /\ params' = r.fields
        /\ last' = [NoCall EXCEPT !.op = "update", !.d = d, !.exc = r.exc,
                                  !.applied = r.applied, !.before = params]
    /\ nCalls' = nCalls + 1
    /\ UNCHANGED field_names

\* record[k] = v
SetItem(k, v) ==
    /\ nCalls < MaxCalls
    /\ LET r == setitem(params, field_names, k, v) IN
        /\ params' = r.fields
        /\ last' = [NoCall EXCEPT !.op = "setitem", !.k = k, !.v = v, !.exc = r.exc,
                                  !.before = params]
    /\ nCalls' = nCalls + 1
    /\ UNCHANGED field_names

\* record[k]
GetItem(k) ==
    /\ nCalls < MaxCalls
    /\ LET r == getitem(params, field_names, k) IN
        last' = [NoCall EXCEPT !.op = "getitem", !.k = k, !.exc = r.exc, !.ret = r.ret,
                               !.before = params]
    /\ nCalls' = nCalls + 1
    /\ UNCHANGED <<params, field_names>>

\* record.keys()
Keys ==
    /\ nCalls < MaxCalls
    /\ last' = [NoCall EXCEPT !.op = "keys", !.retKeys = keys(field_names), !.before = params]
    /\ nCalls' = nCalls + 1
    /\ UNCHANGED <<params, field_names>>

(***************************************************************************)
(* load_flann_library.  A path is the sequence of its components; an       *)
(* absolute path starts with "/".  join followed by normpath concatenates  *)
(* the components, dirname drops the last one and leaves the root alone.   *)
(* The verbose flag only selects what is printed and is left out.          *)
(***************************************************************************)
Root == <<"/">>

\* abspath(dirname(__file__))
ModuleDir == <<"/", "pyflann">>

join(a, b) == a \o b

dirname(path) == IF path = Root THEN path ELSE SubSeq(path, 1, Len(path) - 1)

Platforms == {"win32", "darwin", "linux"}

possible_libnames(plat) ==
    CASE plat = "win32"  -> <<"flann.dll", "libflann.dll">>
      [] plat = "darwin" -> <<"libflann.dylib">>
      [] OTHER           -> <<"libflann.so">>

PlatSpecifiers == {"", ".plat-3.8"}

\* the try block appends its two directories only when get_plat_specifier
\* returns; the except branch appends nothing
possible_subdirs(spec) ==
    (IF spec # ""
     THEN << <<"build", "lib" \o spec, "pyflann", "lib">>,
             <<"cmake_builds", "build" \o spec, "lib">> >>
     ELSE <<>>)
    \o << <<"build", "lib", "pyflann", "lib">>, <<"lib">>, <<"build", "lib">> >>

NoLib == [loaded |-> FALSE, path |-> <<>>]
CDLL(path) == [loaded |-> TRUE, path |-> path]

\* the generator before its first yield
GenStart == [root_dir |-> ModuleDir, si |-> 1, li |-> 1, done |-> FALSE]

\* the libpath the generator yields at position g
GenYield(g, plat, spec) ==
    join(join(g.root_dir, possible_subdirs(spec)[g.si]), <<possible_libnames(plat)[g.li]>>)

\* a variant with the two inner loops exchanged
GenAdvance_swapped(g, plat, spec) ==
    IF g.si < Len(possible_subdirs(spec)) THEN [g EXCEPT !.si = g.si + 1]
    ELSE IF g.li < Len(possible_libnames(plat)) THEN [g EXCEPT !.li = g.li + 1, !.si = 1]
    ELSE LET tmp == dirname(g.root_dir) IN
         IF tmp = g.root_dir THEN [g EXCEPT !.done = TRUE]
         ELSE [g EXCEPT !.root_dir = tmp, !.si = 1, !.li = 1]

\* the generator resumed after a yield: the next position, or exhaustion
GenAdvance(g, plat, spec) ==
    IF g.li < Len(possible_libnames(plat)) THEN [g EXCEPT !.li = g.li + 1]
    ELSE IF g.si < Len(possible_subdirs(spec)) THEN [g EXCEPT !.si = g.si + 1, !.li = 1]
    ELSE LET tmp == dirname(g.root_dir) IN
         IF tmp = g.root_dir THEN [g EXCEPT !.done = TRUE]
         ELSE [g EXCEPT !.root_dir = tmp, !.si = 1, !.li = 1]

\* line 288: the fallback loop runs only when the path loop left flannlib None
AfterPaths(lib) == IF lib = NoLib THEN "fallback" ELSE "finish"

\* one iteration of `for libpath in possible_libpaths`
TryLibpath ==
    /\ lpc = "paths"
    /\ ~gen.done
    /\ LET libpath == GenYield(gen, platform, platSpec) IN
        /\ tried_paths' = Append(tried_paths, libpath)
        /\ IF libpath \in loadable
           THEN /\ flannlib' = CDLL(libpath)
                /\ lpc' = AfterPaths(CDLL(libpath))
                /\ gen' = gen
           ELSE IF libpath \in existing
           THEN /\ flannlib' = NoLib
                /\ lpc' = "raised"
                /\ gen' = gen
           ELSE /\ flannlib' = NoLib
                /\ gen' = GenAdvance(gen, platform, platSpec)
                /\ lpc' = IF gen'.done THEN AfterPaths(NoLib) ELSE "paths"
    /\ UNCHANGED <<fi, warned>>

\* one iteration of the fallback loop `for libpath in possible_libnames`
TryFallback ==
    /\ lpc = "fallback"
    /\ LET libpath == <<possible_libnames(platform)[fi]>> IN
        /\ tried_paths' = Append(tried_paths, libpath)
        /\ IF libpath \in loadable
           THEN /\ flannlib' = CDLL(libpath)
                /\ lpc' = "finish"
                /\ fi' = fi
           ELSE /\ flannlib' = NoLib
                /\ fi' = fi + 1
                /\ lpc' = IF fi' > Len(possible_libnames(platform)) THEN "finish" ELSE "fallback"
    /\ UNCHANGED <<gen, warned>>

\* lines 301-307: warn when nothing was loaded, return flannlib
FinishLoad ==
    /\ lpc = "finish"
    /\ warned' = (flannlib = NoLib)
    /\ lpc' = "returned"
    /\ UNCHANGED <<gen, fi, tried_paths, flannlib>>

\* every libpath the generator can yield, as a set
Ancestors(dir) == {SubSeq(dir, 1, n) : n \in 1..Len(dir)}

CandidatePaths(plat, spec) ==
    { join(join(r, possible_subdirs(spec)[a]), <<possible_libnames(plat)[b]>>) :
        r \in Ancestors(ModuleDir),
        a \in 1..Len(possible_subdirs(spec)),
        b \in 1..Len(possible_libnames(plat)) }

BareNames(plat) == {<<possible_libnames(plat)[b]>> : b \in 1..Len(possible_libnames(plat))}

\* the environment: at most MaxPresent candidate files exist, each loadable
\* or not; the dynamic linker finds any subset of the bare names
RECURSIVE SubsetsUpTo(_, _)
SubsetsUpTo(S, n) ==
    IF n = 0 THEN {{}}
    ELSE LET P == SubsetsUpTo(S, n - 1) IN P \cup {q \cup {x} : q \in P, x \in S}

InitEnv ==
    /\ platform \in Platforms
    /\ platSpec \in PlatSpecifiers
    /\ existing \in SubsetsUpTo(CandidatePaths(platform, platSpec), MaxPresent)
    /\ \E lp \in SUBSET existing : \E ln \in SUBSET BareNames(platform) :
          loadable = lp \cup ln

InitLoad ==
    /\ gen = GenStart
    /\ fi = 1
    /\ tried_paths = <<>>
    /\ flannlib = NoLib
    /\ warned = FALSE
    /\ lpc = "paths"

(***************************************************************************)
(* The module's top-level code after `flannlib = load_flann_library()`:    *)
(* the guard of line 345 and, under it, the registration of the function   *)
(* tables.  Looking a function up on the library raises AttributeError     *)
(* when the library does not export it; nothing catches it for good, so    *)
(* the import fails there.                                                 *)
(***************************************************************************)
\* a variant with the numpy names of byte and int exchanged
type_mappings_swapped ==
    << <<"float", "float32">>, <<"double", "float64">>,
       <<"byte", "int32">>, <<"int", "uint8">> >>

type_mappings ==
    << <<"float", "float32">>, <<"double", "float64">>,
       <<"byte", "uint8">>, <<"int", "int32">> >>

\* the entries of restype and argtypes; ndim = 0 is an ndpointer given no ndim
Plain(kind) == [kind |-> kind, dtype |-> "", ndim |-> 0, flags |-> ""]
ndpointer(dtype, ndim, flags) ==
    [kind |-> "ndpointer", dtype |-> dtype, ndim |-> ndim, flags |-> flags]
c_int == Plain("c_int")
c_float == Plain("c_float")
c_char_p == Plain("c_char_p")
FLANN_INDEX == Plain("c_void_p")
PFloat == Plain("POINTER(c_float)")
PParams == Plain("POINTER(FLANNParameters)")
NoneType == Plain("None")
InFlags == "aligned, c_contiguous"
OutFlags == "aligned, c_contiguous, writeable"

\* the format strings handed to define_functions, instantiated for one
\* numpy type name: [restype, argtypes]
Template(fn, numpy) ==
    CASE fn = "build_index" ->
            [restype |-> FLANN_INDEX,
             argtypes |-> <<ndpointer(numpy, 2, InFlags), c_int, c_int, PFloat, PParams>>]
      [] fn = "used_memory" ->
            [restype |-> c_int, argtypes |-> <<FLANN_INDEX>>]
      [] fn = "add_points" ->
            [restype |-> NoneType,
             argtypes |-> <<FLANN_INDEX, ndpointer(numpy, 2, InFlags), c_int, c_int>>]
      [] fn = "remove_point" ->
            [restype |-> NoneType, argtypes |-> <<FLANN_INDEX, c_int>>]
      [] fn = "save_index" ->
            [restype |-> NoneType, argtypes |-> <<FLANN_INDEX, c_char_p>>]
      [] fn = "load_index" ->
            [restype |-> FLANN_INDEX,
             argtypes |-> <<c_char_p, ndpointer(numpy, 2, InFlags), c_int, c_int>>]
      [] fn = "find_nearest_neighbors" ->
            [restype |-> c_int,
             argtypes |-> <<ndpointer(numpy, 2, InFlags), c_int, c_int,
                            ndpointer(numpy, 2, InFlags), c_int,
                            ndpointer("int32", 2, OutFlags),
                            ndpointer("float32", 2, OutFlags), c_int, PParams>>]
      [] fn = "find_nearest_neighbors_index" ->
            [restype |-> c_int,
             argtypes |-> <<FLANN_INDEX, ndpointer(numpy, 2, InFlags), c_int,
                            ndpointer("int32", 2, OutFlags),
                            ndpointer("float32", 2, OutFlags), c_int, PParams>>]
      [] fn = "radius_search" ->
            [restype |-> c_int,
             argtypes |-> <<FLANN_INDEX, ndpointer(numpy, 1, InFlags),
                            ndpointer("int32", 1, OutFlags),
                            ndpointer("float32", 1, OutFlags), c_int, c_float, PParams>>]
      [] fn = "compute_cluster_centers" ->
            [restype |-> c_int,
             argtypes |-> <<ndpointer(numpy, 2, InFlags), c_int, c_int, c_int,
                            ndpointer("float32", 0, OutFlags), PParams>>]
      [] fn = "free_index" ->
            [restype |-> NoneType, argtypes |-> <<FLANN_INDEX, PParams>>]

\* a variant that repeats the macro's signature for float64
DoubleFix_as_macro(fn) == Template(fn, "float64")

\* the signatures written out for the double functions after the macro
DoubleFix(fn) ==
    CASE fn = "find_nearest_neighbors" ->
            [restype |-> c_int,
             argtypes |-> <<ndpointer("float64", 2, InFlags), c_int, c_int,
                            ndpointer("float64", 2, InFlags), c_int,
                            ndpointer("int32", 2, OutFlags),
                            ndpointer("float64", 2, OutFlags), c_int, PParams>>]
      [] fn = "find_nearest_neighbors_index" ->
            [restype |-> c_int,
             argtypes |-> <<FLANN_INDEX, ndpointer("float64", 2, InFlags), c_int,
                            ndpointer("int32", 2, OutFlags),
                            ndpointer("float64", 2, OutFlags), c_int, PParams>>]
      [] fn = "radius_search" ->
            [restype |-> c_int,
             argtypes |-> <<FLANN_INDEX, ndpointer("float64", 1, InFlags),
                            ndpointer("int32", 1, OutFlags),
                            ndpointer("float64", 1, OutFlags), c_int, c_float, PParams>>]
      [] fn = "compute_cluster_centers" ->
            [restype |-> c_int,
             argtypes |-> <<ndpointer("float64", 2, InFlags), c_int, c_int, c_int,
                            ndpointer("float64", 0, OutFlags), PParams>>]

\* the name of the library function the format string names for C type C
Symbol(fn, C) == "flann_" \o fn \o "_" \o C

\* the top-level statements under the guard, in order
RegSteps ==
    << [kind |-> "plain", fn |-> "flann_log_verbosity"],
       [kind |-> "plain", fn |-> "flann_set_distance_type"],
       [kind |-> "macro", fn |-> "build_index"],
       [kind |-> "macro", fn |-> "used_memory"],
       [kind |-> "macro", fn |-> "add_points"],
       [kind |-> "macro", fn |-> "remove_point"],
       [kind |-> "macro", fn |-> "save_index"],
       [kind |-> "macro", fn |-> "load_index"],
       [kind |-> "macro", fn |-> "find_nearest_neighbors"],
       [kind |-> "fix",   fn |-> "find_nearest_neighbors"],
       [kind |-> "macro", fn |-> "find_nearest_neighbors_index"],
       [kind |-> "fix",   fn |-> "find_nearest_neighbors_index"],
       [kind |-> "macro", fn |-> "radius_search"],
       [kind |-> "fix",   fn |-> "radius_search"],
       [kind |-> "macro", fn |-> "compute_cluster_centers"],
       [kind |-> "fix",   fn |-> "compute_cluster_centers"],
       [kind |-> "macro", fn |-> "free_index"] >>

PlainSig(fn) ==
    IF fn = "flann_log_verbosity"
    THEN [restype |-> NoneType, argtypes |-> <<c_int>>]
    ELSE [restype |-> NoneType, argtypes |-> <<c_int, c_int>>]

\* d[key] = val on a dict
Put(f, key, val) == (key :> val) @@ f

Empty == <<>>

\* define_functions(fmtstr): the loop over type_mappings, stopped before the
\* type at index failAt (0: every function is exported).  st is [sigs, flann].
RECURSIVE DefineFrom(_, _, _, _)
DefineFrom(st, fn, failAt, j) ==
    IF j > Len(type_mappings) \/ j = failAt THEN st
    ELSE LET C == type_mappings[j][1]
             numpy == type_mappings[j][2]
         IN  DefineFrom([sigs |-> Put(st.sigs, Symbol(fn, C), Template(fn, numpy)),
                         flann |-> Put(st.flann, fn, Put(st.flann[fn], numpy, Symbol(fn, C)))],
                        fn, failAt, j + 1)

define_functions(st, fn, failAt) == DefineFrom(st, fn, failAt, 1)

\* one top-level statement group; failAt # 0 is an AttributeError in it
RegApply(st, step, failAt) ==
    CASE step.kind = "plain" ->
            IF failAt # 0 THEN st
            ELSE [st EXCEPT !.sigs = Put(st.sigs, step.fn, PlainSig(step.fn))]
      [] step.kind = "macro" ->
            define_functions([st EXCEPT !.flann = Put(st.flann, step.fn, Empty)],
                             step.fn, failAt)
      [] step.kind = "fix" ->
            [sigs |-> Put(st.sigs, Symbol(step.fn, "double"), DoubleFix(step.fn)),
             flann |-> Put(st.flann, step.fn,
                           Put(st.flann[step.fn], "float64", Symbol(step.fn, "double")))]

\* where a statement group can meet a function the library does not export:
\* a plain group at its one function, a macro at any of the four types; a
\* fix names a function its macro has already looked up
FailPoints(step) ==
    CASE step.kind = "plain" -> {0, 1}
      [] step.kind = "macro" -> 0..Len(type_mappings)
      [] step.kind = "fix"   -> {0}

\* lines 310-345: the module keeps what load_flann_library returned, or the
\* exception it raised ends the import
ModuleGuard ==
    /\ mpc = "loading"
    /\ lpc \in {"returned", "raised"}
    /\ mpc' = CASE lpc = "raised"    -> "import_failed"
                [] flannlib # NoLib  -> "register"
                [] OTHER             -> "done"
    /\ UNCHANGED <<ri, sigs, flann>>

Register(failAt) ==
    /\ mpc = "register"
    /\ ri <= Len(RegSteps)
    /\ failAt \in FailPoints(RegSteps[ri])
    /\ LET st == RegApply([sigs |-> sigs, flann |-> flann], RegSteps[ri], failAt) IN
        /\ sigs' = st.sigs
        /\ flann' = st.flann
    /\ IF failAt # 0
       THEN mpc' = "import_failed" /\ ri' = ri
       ELSE ri' = ri + 1 /\ mpc' = IF ri' > Len(RegSteps) THEN "done" ELSE "register"

InitModule ==
    /\ mpc = "loading"
    /\ ri = 1
    /\ sigs = Empty
    /\ flann = Empty

(***************************************************************************)
(* Calls made through the function tables once the module is imported.     *)
(* An entry flann.<fn>[dtype] is the library's own function, loaded with   *)
(* cdll: calling it hands the arguments to the library with no Python code *)
(* in between, and the interpreter lock is released from the moment the    *)
(* call enters the library until it returns.  A call is therefore two      *)
(* steps, entry and return, and calls of other threads run in between.     *)
(* The library is not part of this file.  What it does with a handle is    *)
(* taken from its specification: build and load return a new handle, free  *)
(* ends it, and using a handle that is not live (or with another element   *)
(* type), or changing an index while another call is using it, is          *)
(* undefined: the call may return or fault.                                *)
(***************************************************************************)
DTypes == {type_mappings[j][2] : j \in 1..Len(type_mappings)}

\* the table keys the calls below are made with: indexes are built and
\* loaded through one key, and used through that key and another
BuildDTypes == {"float32"}

CallDTypes == {"float32", "float64"}

Threads == 1..MaxThreads

\* the tables whose functions have restype FLANN_INDEX
CreateFns == {"build_index", "load_index"}

\* the tables whose functions take a FLANN_INDEX first
HandleFns ==
    {"find_nearest_neighbors_index", "radius_search", "add_points",
     "remove_point", "save_index", "used_memory", "free_index"}

\* the calls that change or end an index
Mutators == {"add_points", "remove_point", "free_index"}

NoTableCall ==
    [fn |-> "none", sym |-> "", dtype |-> "", handle |-> 0, wasFreed |-> FALSE,
     raced |-> FALSE, reachedNative |-> FALSE, outcome |-> "none"]

\* the library's view of a handle
NativeValid(hs, h, dtype) ==
    h \in DOMAIN hs /\ hs[h].state = "live" /\ hs[h].dtype = dtype

\* what a call on a handle can end in, decided when it leaves the library
NativeOutcomes(hs, call) ==
    IF NativeValid(hs, call.handle, call.dtype) /\ ~call.raced
    THEN {"ok"} ELSE {"ok", "fault"}

\* flann.<fn>[dtype](...): the table entry is looked up and called
Dispatch(fl, fn, dtype) == fl[fn][dtype]

\* the call record of a thread that has entered the library
Entered(fn, dtype, h, freed, raced) ==
    [fn |-> fn, sym |-> Dispatch(flann, fn, dtype), dtype |-> dtype, handle |-> h,
     wasFreed |-> freed, raced |-> raced,
     reachedNative |-> (Dispatch(flann, fn, dtype) \in DOMAIN sigs),
     outcome |-> "pending"]

\* thread u is inside the library; raced is kept only while it is
Inside(u) == calls[u].outcome = "pending"

\* the threads inside a build_index or load_index call
Creating == {u \in Threads : Inside(u) /\ calls[u].fn \in CreateFns}

\* thread t enters flann.<fn>[dtype] for a function that returns a new handle
EnterCreate(t, fn, dtype) ==
    /\ mpc = "done" /\ ~crashed
    /\ ~Inside(t)
    /\ fn \in DOMAIN flann
    /\ Cardinality(DOMAIN handles) + Cardinality(Creating) < MaxHandles
    /\ calls' = [calls EXCEPT ![t] = Entered(fn, dtype, 0, FALSE, FALSE)]
    /\ UNCHANGED <<handles, crashed>>

\* flann.build_index[dtype](pts, rows, cols, speedup, params)
CallBuild(t, dtype) == EnterCreate(t, "build_index", dtype)

\* flann.load_index[dtype](filename, pts, rows, cols)
CallLoad(t, dtype) == EnterCreate(t, "load_index", dtype)

\* the calls of other threads on handle h that a call of fn must not overlap
Conflicting(t, fn, h) ==
    {u \in Threads \ {t} :
        /\ Inside(u)
        /\ calls[u].fn \in HandleFns
        /\ calls[u].handle = h
        /\ (fn \in Mutators \/ calls[u].fn \in Mutators)}

\* thread t enters flann.<fn>[dtype](h, ...) for a function that takes a handle
CallOnHandle(t, fn, dtype, h) ==
    /\ mpc = "done" /\ ~crashed
    /\ ~Inside(t)
    /\ fn \in DOMAIN flann
    /\ h \in DOMAIN handles
    /\ calls' =
          [u \in Threads |->
              CASE u = t -> Entered(fn, dtype, h, handles[h].state = "freed",
                                    Conflicting(t, fn, h) # {})
                [] u \in Conflicting(t, fn, h) -> [calls[u] EXCEPT !.raced = TRUE]
                [] OTHER -> calls[u]]
    /\ UNCHANGED <<handles, crashed>>

\* thread t's build_index or load_index returns the new handle
ReturnCreate(t) ==
    /\ ~crashed
    /\ Inside(t)
    /\ calls[t].fn \in CreateFns
    /\ LET h == Cardinality(DOMAIN handles) + 1 IN
        /\ handles' = Put(handles, h, [state |-> "live", dtype |-> calls[t].dtype])
        /\ calls' = [calls EXCEPT ![t].handle = h, ![t].outcome = "ok"]
    /\ UNCHANGED crashed

\* thread t's call on a handle returns, or faults inside the library
ReturnOnHandle(t) ==
    /\ ~crashed
    /\ Inside(t)
    /\ calls[t].fn \in HandleFns
    /\ \E out \in NativeOutcomes(handles, calls[t]) :
        /\ calls' = [calls EXCEPT ![t].outcome = out, ![t].raced = FALSE]
        /\ crashed' = (out = "fault")
    /\ handles' = IF /\ calls[t].fn = "free_index"
                     /\ NativeValid(handles, calls[t].handle, calls[t].dtype)
                  THEN [handles EXCEPT ![calls[t].handle].state = "freed"]
                  ELSE handles

InitCalls ==
    /\ handles = Empty
    /\ calls = [t \in Threads |-> NoTableCall]
    /\ crashed = FALSE

\* no FLANNParameters instance yet
NoRecord ==
    /\ field_names = <<>>
    /\ params = Empty
    /\ last = NoCall
    /\ nCalls = 0

(***************************************************************************)
(* The import of the module: load_flann_library, then the registration.    *)
(***************************************************************************)
Init == NoRecord /\ InitEnv /\ InitLoad /\ InitModule /\ InitCalls

Next ==
    \/ TryLibpath /\ UNCHANGED <<paramVars, envVars, modVars, callVars>>
    \/ TryFallback /\ UNCHANGED <<paramVars, envVars, modVars, callVars>>
    \/ FinishLoad /\ UNCHANGED <<paramVars, envVars, modVars, callVars>>
    \/ ModuleGuard /\ UNCHANGED <<paramVars, envVars, loadVars, callVars>>
    \/ \E failAt \in 0..Len(type_mappings) :
          Register(failAt) /\ UNCHANGED <<paramVars, envVars, loadVars, callVars>>

vars == <<paramVars, envVars, loadVars, modVars, callVars>>

Spec == Init /\ [][Next]_vars

(***************************************************************************)
(* The state of a process that has imported the module with the library    *)
(* found at the first candidate path and every function exported: the      *)
(* state Spec ends in from that environment (ImportedReached).             *)
(***************************************************************************)
StepFns(kind) == {RegSteps[j].fn : j \in {x \in 1..Len(RegSteps) : RegSteps[x].kind = kind}}

TypePairs == {type_mappings[j] : j \in 1..Len(type_mappings)}

Registered ==
    [flann |-> [fn \in StepFns("macro") |-> [numpy \in DTypes |->
                    Symbol(fn, (CHOOSE tm \in TypePairs : tm[2] = numpy)[1])]],
     sigs |-> [sym \in StepFns("plain")
                        \cup {Symbol(fn, tm[1]) : fn \in StepFns("macro"), tm \in TypePairs} |->
                    IF sym \in StepFns("plain") THEN PlainSig(sym)
                    ELSE LET at == CHOOSE q \in StepFns("macro") \X TypePairs :
                                       Symbol(q[1], q[2][1]) = sym
                         IN  IF at[2][1] = "double" /\ at[1] \in StepFns("fix")
                             THEN DoubleFix(at[1])
                             ELSE Template(at[1], at[2][2])]]

FirstCandidate == GenYield(GenStart, "linux", "")

Imported ==
    /\ platform = "linux"
    /\ platSpec = ""
    /\ existing = {FirstCandidate}
    /\ loadable = {FirstCandidate}
    /\ gen = GenStart
    /\ fi = 1
    /\ tried_paths = <<FirstCandidate>>
    /\ flannlib = CDLL(FirstCandidate)
    /\ warned = FALSE
    /\ lpc = "returned"
    /\ mpc = "done"
    /\ ri = Len(RegSteps) + 1
    /\ sigs = Registered.sigs
    /\ flann = Registered.flann

\* calls through the tables of an imported module
InitTables == NoRecord /\ Imported /\ InitCalls

NextCalls ==
    \/ \E t \in Threads : \E dtype \in BuildDTypes :
          CallBuild(t, dtype) /\ UNCHANGED <<paramVars, envVars, loadVars, modVars>>
    \/ \E t \in Threads : \E dtype \in BuildDTypes :
          CallLoad(t, dtype) /\ UNCHANGED <<paramVars, envVars, loadVars, modVars>>
    \/ \E t \in Threads : \E fn \in HandleFns : \E dtype \in CallDTypes : \E h \in 1..MaxHandles :
          CallOnHandle(t, fn, dtype, h) /\ UNCHANGED <<paramVars, envVars, loadVars, modVars>>
    \/ \E t \in Threads : ReturnCreate(t) /\ UNCHANGED <<paramVars, envVars, loadVars, modVars>>
    \/ \E t \in Threads : ReturnOnHandle(t) /\ UNCHANGED <<paramVars, envVars, loadVars, modVars>>

SpecCalls == InitTables /\ [][NextCalls]_vars

\* calls on one FLANNParameters record of an imported module
InitRecord == InitParams /\ Imported /\ InitCalls

NextParams ==
    \/ \E d \in InputDicts : Update(d) /\ UNCHANGED <<envVars, loadVars, modVars, callVars>>
    \/ \E k \in InputKeys : \E v \in InputValues(k) :
          SetItem(k, v) /\ UNCHANGED <<envVars, loadVars, modVars, callVars>>
    \/ \E k \in InputKeys : GetItem(k) /\ UNCHANGED <<envVars, loadVars, modVars, callVars>>
    \/ Keys /\ UNCHANGED <<envVars, loadVars, modVars, callVars>>

SpecParams == InitRecord /\ [][NextParams]_vars

\* the imported state is one the import reaches
ImportedReached ==
    (mpc = "done" /\ platform = "linux" /\ platSpec = "" /\ loadable = {FirstCandidate})
        => Imported

(***************************************************************************)
(* Properties of the FLANNParameters record, checked under SpecParams.     *)
(***************************************************************************)
DeclaredNames ==
    {"algorithm", "checks", "eps", "sorted", "max_neighbors", "cores", "trees",
     "leaf_max_size", "branching", "iterations", "centers_init", "cb_index",
     "target_precision", "build_weight", "memory_weight", "sample_fraction",
     "table_number_", "key_size_", "multi_probe_level_", "log_level", "random_seed"}

\* the one key the last call named, when it named exactly one
NamedOneKey ==
    \/ last.op \in {"setitem", "getitem"}
    \/ last.op = "update" /\ Len(last.d) = 1

TheKey == IF last.op = "update" THEN last.d[1][1] ELSE last.k
TheValue == IF last.op = "update" THEN last.d[1][2] ELSE last.v

\* C1: update({k: v}), record[k] = v and the read record[k] each raise
\* KeyError when k is not a declared field.
C1_UnknownKeyRaises ==
    (NamedOneKey /\ TheKey \notin DeclaredNames) => last.exc = "KeyError"

\* C2: for a translated field, update or item assignment with a value that is
\* neither a name of the field's table nor one of its integer codes raises an
\* error and leaves the stored fields unchanged.
C2_InvalidEnumRejected ==
    ( /\ last.op \in {"setitem", "update"}
      /\ NamedOneKey
      /\ TheKey \in {"algorithm", "centers_init", "log_level"}
      /\ ~(TheValue.t = "str" /\ TheValue.s \in TableNames(TheKey))
      /\ ~(TheValue.t = "int" /\ TheValue.i \in TableCodes(TheKey)) )
    => (last.exc # "none" /\ params = last.before)

\* a symbolic name was stored in a translated field by the last call
StoredName ==
    /\ last.op \in {"setitem", "update"}
    /\ NamedOneKey
    /\ last.exc = "none"
    /\ TheKey \in {"algorithm", "centers_init", "log_level"}
    /\ TheValue.t = "str"
    /\ TheValue.s \in TableNames(TheKey)

\* what the read record[k] returns in the current state
ReadBack(k) == getitem(params, field_names, k).ret

\* C9 as stated: after record[k] = s (or update({k: s})) with s a name of
\* k's table, the read record[k] returns s.
C9_RoundTrip == StoredName => ReadBack(TheKey) = PyStr(TheValue.s)

DefaultReadsAs == [algorithm |-> "kdtree", centers_init |-> "random", log_level |-> "error"]

\* C9 as amended: every name but "default" reads back as itself; "default"
\* reads back as the first name of the table with the same code.
C9_RoundTripExceptDefault ==
    StoredName =>
        ReadBack(TheKey) = IF TheValue.s = "default"
                           THEN PyStr(DefaultReadsAs[TheKey])
                           ELSE PyStr(TheValue.s)

C9_Witness ==
    /\ StoredName
    /\ TheKey = "log_level"
    /\ TheValue.s = "default"
    /\ ReadBack("log_level") = PyStr("error")

\* C10 as stated: when update(d) raises KeyError every field holds the value
\* it had before the call.
C10_UpdateAllOrNothing ==
    (last.op = "update" /\ last.exc = "KeyError") => params = last.before

FirstUndeclared(d) ==
    CHOOSE j \in 1..Len(d) :
        /\ d[j][1] \notin DeclaredNames
        /\ \A h \in 1..(j - 1) : d[h][1] \in DeclaredNames

\* C10 as amended: when update(d) raises KeyError, each item d iterates
\* before the first undeclared key has been stored as the item assignment
\* record[k] = v stores it, no item after it has been applied, and every
\* other field holds the value it had before the call.
C10_UpdateKeepsPrefix ==
    (last.op = "update" /\ last.exc = "KeyError") =>
        /\ \E j \in 1..Len(last.d) : last.d[j][1] \notin DeclaredNames
        /\ LET bad == FirstUndeclared(last.d) IN
           \A f \in DeclaredNames :
              IF \E h \in 1..(bad - 1) : last.d[h][1] = f
              THEN LET h == CHOOSE h \in 1..(bad - 1) : last.d[h][1] = f IN
                   params[f] = setitem(last.before, field_names, f, last.d[h][2]).fields[f]
              ELSE params[f] = last.before[f]

C10_Witness ==
    /\ last.op = "update"
    /\ last.exc = "KeyError"
    /\ last.applied >= 1
    /\ params # last.before

\* C6 as stated: the record declares exactly 20 fields and keys() returns
\* them in declaration order, algorithm first and random_seed last.
C6_TwentyFields ==
    last.op = "keys" =>
        /\ Len(last.retKeys) = 20
        /\ last.retKeys[1] = "algorithm"
        /\ last.retKeys[Len(last.retKeys)] = "random_seed"

DeclarationOrder ==
    <<"algorithm", "checks", "eps", "sorted", "max_neighbors", "cores", "trees",
      "leaf_max_size", "branching", "iterations", "centers_init", "cb_index",
      "target_precision", "build_weight", "memory_weight", "sample_fraction",
      "table_number_", "key_size_", "multi_probe_level_", "log_level", "random_seed">>

\* C6 as amended: the record declares exactly 21 fields and, after any
\* sequence of successful or failing update / item-assignment calls, keys()
\* returns those 21 names in declaration order.
C6_TwentyOneFieldsInOrder ==
    /\ Len(field_names) = 21
    /\ last.op = "keys" => last.retKeys = DeclarationOrder

C6_Witness ==
    /\ last.op = "keys"
    /\ nCalls >= 2
    /\ params # NewParams
    /\ Len(last.retKeys) = 21

(***************************************************************************)
(* Properties of load_flann_library and the import, checked under Spec.    *)
(***************************************************************************)
\* the directories from the module's own up to the root
WalkDirs == [d \in 1..Len(ModuleDir) |-> SubSeq(ModuleDir, 1, Len(ModuleDir) - d + 1)]

\* the candidate paths in the order the claim gives: directory, then
\* subdirectory, then library name
ExpectedPaths ==
    LET S == Len(possible_subdirs(platSpec))
        N == Len(possible_libnames(platform))
    IN  [c \in 1..(Len(WalkDirs) * S * N) |->
            WalkDirs[((c - 1) \div (S * N)) + 1]
                \o possible_subdirs(platSpec)[(((c - 1) \div N) % S) + 1]
                \o <<possible_libnames(platform)[((c - 1) % N) + 1]>>]

ExpectedNames ==
    [b \in 1..Len(possible_libnames(platform)) |-> <<possible_libnames(platform)[b]>>]

ExpectedTries == ExpectedPaths \o ExpectedNames

\* C3: when no candidate path and no bare name can be loaded,
\* load_flann_library never raises, whichever candidate files exist: it
\* warns, returns None, and the module registers no function table.
C3_NeverRaises ==
    loadable = {} =>
        /\ lpc # "raised"
        /\ mpc # "import_failed"
        /\ lpc = "returned" => (flannlib = NoLib /\ warned)
        /\ flann = Empty

\* C8: the candidates are tried in order (directory upward, then
\* subdirectory, then library name, then the bare names), the first that
\* loads is returned and nothing is tried after it, and the bare names are
\* tried only when every path candidate failed to load.
C8_FirstLoadableInOrder ==
    /\ Len(tried_paths) <= Len(ExpectedTries)
    /\ \A c \in 1..Len(tried_paths) : tried_paths[c] = ExpectedTries[c]
    /\ \A c \in 1..(Len(tried_paths) - 1) : tried_paths[c] \notin loadable
    /\ flannlib # NoLib =>
          /\ flannlib.path = tried_paths[Len(tried_paths)]
          /\ flannlib.path \in loadable
    /\ (lpc = "fallback" \/ Len(tried_paths) > Len(ExpectedPaths)) =>
          \A c \in 1..Len(ExpectedPaths) :
              ExpectedPaths[c] \notin loadable /\ tried_paths[c] = ExpectedPaths[c]
    /\ (lpc = "returned" /\ flannlib = NoLib) => Len(tried_paths) = Len(ExpectedTries)

C8_Witness ==
    /\ lpc = "returned"
    /\ flannlib # NoLib
    /\ platform = "win32"
    /\ Len(tried_paths) > Len(possible_libnames(platform)) * Len(possible_subdirs(platSpec))
    /\ Len(tried_paths) < Len(ExpectedPaths)

\* the import ended with the library loaded and every statement run
ImportComplete == mpc = "done" /\ flannlib # NoLib

TableFns ==
    {"build_index", "used_memory", "add_points", "remove_point", "save_index",
     "load_index", "find_nearest_neighbors", "find_nearest_neighbors_index",
     "radius_search", "compute_cluster_centers", "free_index"}

CNameOf == [float32 |-> "float", float64 |-> "double", uint8 |-> "byte", int32 |-> "int"]

\* C4: once the import completes with the library loaded, every function
\* table has exactly the keys float32, float64, uint8 and int32, and the entry
\* for each key is the library function of the matching C type name.
C4_TablesComplete ==
    ImportComplete =>
        /\ DOMAIN flann = TableFns
        /\ \A fn \in TableFns :
              /\ DOMAIN flann[fn] = {"float32", "float64", "uint8", "int32"}
              /\ \A numpy \in DOMAIN flann[fn] :
                    /\ flann[fn][numpy] = "flann_" \o fn \o "_" \o CNameOf[numpy]
                    /\ flann[fn][numpy] \in DOMAIN sigs

C4_Witness ==
    /\ ImportComplete
    /\ ri = Len(RegSteps) + 1
    /\ "free_index" \in DOMAIN flann
    /\ flann["free_index"]["int32"] = "flann_free_index_int"

\* position of the distance / result output array in each search signature
OutputArg ==
    [find_nearest_neighbors |-> 7, find_nearest_neighbors_index |-> 5,
     radius_search |-> 4, compute_cluster_centers |-> 5]

OutputDType(fn, numpy) == sigs[flann[fn][numpy]].argtypes[OutputArg[fn]].dtype

\* C7: once the import completes, the float64 entries of the four search
\* tables declare their output array as float64 and the float32, uint8 and
\* int32 entries declare it as float32.
C7_DoubleOutputIsFloat64 ==
    ImportComplete =>
        \A fn \in DOMAIN OutputArg :
            /\ OutputDType(fn, "float64") = "float64"
            /\ \A numpy \in {"float32", "uint8", "int32"} : OutputDType(fn, numpy) = "float32"

C7_Witness ==
    /\ ImportComplete
    /\ OutputDType("radius_search", "float64") = "float64"
    /\ OutputDType("radius_search", "uint8") = "float32"

\* the macro's signature for a double function is in force before its fix
C7_MacroFirst ==
    /\ mpc = "register"
    /\ RegSteps[ri] = [kind |-> "fix", fn |-> "compute_cluster_centers"]
    /\ OutputDType("compute_cluster_centers", "float64") = "float32"

(***************************************************************************)
(* Calls through the tables, checked under SpecCalls.                      *)
(***************************************************************************)
\* C5: a call with a handle that free_index has been called on is rejected
\* with a handle error and the handle is not passed to the library: no thread
\* is inside the library with such a handle, and a call made with one ended
\* as a handle error without reaching the library.
C5_FreedHandleRejected ==
    \A t \in Threads :
        calls[t].wasFreed => (calls[t].outcome = "handle_error" /\ ~calls[t].reachedNative)

====
